---- MODULE Spec2Model ----
(***************************************************************************)
(* Model of cmd/oras/copy.go: one invocation of runCopy, from the          *)
(* construction of the two repository handles to the completion lines,     *)
(* with the oras-go collaborator (Resolve, Copy, CopyGraph, ExtendedCopy,  *)
(* ExtendedCopyGraph) as a black box that invokes the callbacks it was     *)
(* handed and returns a descriptor or an error.                            *)
(*                                                                         *)
(* Strings that are parsed or concatenated (reference strings, output      *)
(* lines) are sequences of tokens; the empty string is << >>.              *)
(***************************************************************************)
EXTENDS Naturals, Sequences, FiniteSets, TLC

VARIABLES
    opts,          \* copyOptions: rescursive, Verbose, srcRef, dstRef
    pc,            \* position of runCopy
    src,           \* source repository handle
    dst,           \* destination repository handle
    cpOpts,        \* oras.CopyOptions bundle
    extendCpOpts,  \* oras.ExtendedCopyOptions bundle
    desc,          \* var desc ocispec.Descriptor
    err,           \* var err error
    active,        \* the collaborator copy call in progress
    nCb,           \* callbacks the collaborator has invoked in this call
    events,        \* history: collaborator calls, callbacks, returns, printed lines
    ret            \* runCopy's return value

vars == <<opts, pc, src, dst, cpOpts, extendCpOpts, desc, err, active, nCb, events, ret>>

----------------------------------------------------------------------------
(* Bounds *)

\* nodes the collaborator visits (callback invocations) in one copy call
MaxNodes == 2

----------------------------------------------------------------------------
(* Values *)

AnnotationTitle == "org.opencontainers.image.title"

Err(kind, ctx) == [kind |-> kind, ctx |-> ctx]

nil == Err("nil", << >>)

\* separators of a reference string: repository ":" tag, repository "@" digest
Seps == {":", "@"}

\* what the user may type as <from-ref> and <to-ref>
RefStrings ==
    { << >>,
      <<"repo-a", ":", "v1">>,
      <<"repo-a", "@", "sha256:d1">>,
      <<"repo-b">>,
      <<"repo-b", ":", "v1">> }

NoAnnotations == [k \in {} |-> ""]

Annotations ==
    { NoAnnotations,
      [k \in {AnnotationTitle} |-> "net-monitor"],
      [k \in {AnnotationTitle} |-> ""] }

Descriptors ==
    { [MediaType |-> m[1], Digest |-> m[2], Annotations |-> a] :
        m \in { <<"application/vnd.oci.image.manifest.v1+json", "sha256:d1">>,
                <<"application/vnd.oci.image.layer.v1.tar", "sha256:d2">> },
        a \in Annotations }

\* the zero value of ocispec.Descriptor
ZeroDescriptor == [MediaType |-> "", Digest |-> "", Annotations |-> NoAnnotations]

\* Go map lookup: the zero value when the key is absent
MapGet(m, k) == IF k \in DOMAIN m THEN m[k] ELSE ""

NoRepository ==
    [constructed |-> FALSE, Reference |-> [Repository |-> << >>, Reference |-> << >>]]

NoCall == [fn |-> "none", PreCopy |-> "nil", OnCopySkipped |-> "nil", returnsDesc |-> FALSE]

----------------------------------------------------------------------------
(* Collaborators of this repository that are not in copy.go *)

\* index of the first separator of s, 0 when there is none
SepIndex(s) ==
    IF \E i \in 1..Len(s) : s[i] \in Seps
    THEN CHOOSE i \in 1..Len(s) : s[i] \in Seps /\ \A j \in 1..(i-1) : s[j] \notin Seps
    ELSE 0

\* a reference string split into its repository and its tag or digest component
ParseReference(s) ==
    LET i == SepIndex(s) IN
    IF i = 0
    THEN [Repository |-> s, Reference |-> << >>]
    ELSE [Repository |-> SubSeq(s, 1, i-1), Reference |-> SubSeq(s, i+1, Len(s))]

\* option.Remote.NewRepository: the handle of the repository the reference
\* names, or an error (a malformed reference, a bad client configuration)
NewRepository(which, reference, cfgOk) ==
    LET ref == ParseReference(reference) IN
    IF cfgOk /\ ref.Repository # << >>
    THEN [repo |-> [constructed |-> TRUE, Reference |-> ref], err |-> nil]
    ELSE [repo |-> NoRepository, err |-> Err("NewRepository", <<which>>)]

newErrInvalidReference(ref) == Err("InvalidReference", ref.Repository)

ShortDigest(d) == <<"short", d.Digest>>

\* display.Print(status, shortDigest, label): one line on the sink, or the
\* sink's error
displayPrint(sinkOk, status, short, name) ==
    LET result == IF sinkOk THEN nil ELSE Err("Sink", << >>) IN
    [prints |-> << [status |-> status, digest |-> short, label |-> name,
                    result |-> result] >>,
     err    |-> result]

----------------------------------------------------------------------------
(* The callbacks, copy.go:86-98 *)

\* faulty variant: the verbosity test inverted
preCopy_VerboseInverted(verbose, sinkOk, d) ==
    IF AnnotationTitle \notin DOMAIN d.Annotations
    THEN IF verbose
         THEN [prints |-> << >>, err |-> nil]
         ELSE displayPrint(sinkOk, "Uploading", ShortDigest(d), d.MediaType)
    ELSE displayPrint(sinkOk, "Uploading", ShortDigest(d), d.Annotations[AnnotationTitle])

\* faulty variant: the sink's error dropped
preCopy_SwallowsError(verbose, sinkOk, d) ==
    IF AnnotationTitle \notin DOMAIN d.Annotations /\ ~verbose
    THEN [prints |-> << >>, err |-> nil]
    ELSE [prints |-> displayPrint(sinkOk, "Uploading", ShortDigest(d),
                        IF AnnotationTitle \in DOMAIN d.Annotations
                        THEN d.Annotations[AnnotationTitle] ELSE d.MediaType).prints,
          err |-> nil]

preCopy(verbose, sinkOk, d) ==
    IF AnnotationTitle \notin DOMAIN d.Annotations
    THEN IF ~verbose
         THEN [prints |-> << >>, err |-> nil]
         ELSE displayPrint(sinkOk, "Uploading", ShortDigest(d), d.MediaType)
    ELSE displayPrint(sinkOk, "Uploading", ShortDigest(d), d.Annotations[AnnotationTitle])

\* faulty variant: the label chosen as preCopy chooses it
onCopySkipped_LikePreCopy(verbose, sinkOk, d) ==
    IF AnnotationTitle \notin DOMAIN d.Annotations
    THEN IF ~verbose
         THEN [prints |-> << >>, err |-> nil]
         ELSE displayPrint(sinkOk, "Exists   ", ShortDigest(d), d.MediaType)
    ELSE displayPrint(sinkOk, "Exists   ", ShortDigest(d), d.Annotations[AnnotationTitle])

onCopySkipped(verbose, sinkOk, d) ==
    displayPrint(sinkOk, "Exists   ", ShortDigest(d), MapGet(d.Annotations, AnnotationTitle))

\* the collaborator calling what a callback slot holds; an unset slot is skipped
Invoke(slot, verbose, sinkOk, d) ==
    CASE slot = "preCopy"       -> preCopy(verbose, sinkOk, d)
      [] slot = "onCopySkipped" -> onCopySkipped(verbose, sinkOk, d)
      [] OTHER                  -> [prints |-> << >>, err |-> nil]

----------------------------------------------------------------------------
(* Option bundles of the collaborator *)

DefaultCopyGraphOptions ==
    [type |-> "CopyGraphOptions", PreCopy |-> "nil", OnCopySkipped |-> "nil"]

\* oras.DefaultCopyOptions: embeds CopyGraphOptions
DefaultCopyOptions ==
    [type |-> "CopyOptions", CopyGraphOptions |-> DefaultCopyGraphOptions]

\* oras.DefaultExtendedCopyOptions: embeds ExtendedCopyGraphOptions, which
\* embeds CopyGraphOptions
DefaultExtendedCopyOptions ==
    [type |-> "ExtendedCopyOptions",
     ExtendedCopyGraphOptions |->
        [type |-> "ExtendedCopyGraphOptions", CopyGraphOptions |-> DefaultCopyGraphOptions]]

----------------------------------------------------------------------------
(* Events *)

CallEvent(fn, args) == [ev |-> "call", fn |-> fn, args |-> args]

ReturnEvent(fn, d, e) == [ev |-> "return", fn |-> fn, desc |-> d, err |-> e]

CallbackEvent(slot, d, r) ==
    [ev |-> "callback", slot |-> slot, desc |-> d, prints |-> r.prints, err |-> r.err]

PrintlnEvent(line) == [ev |-> "Println", line |-> line]

----------------------------------------------------------------------------
(* runCopy *)

Init ==
    /\ opts \in [rescursive : BOOLEAN, Verbose : BOOLEAN,
                 srcRef : RefStrings, dstRef : RefStrings]
    /\ pc = "NewSrc"
    /\ src = NoRepository
    /\ dst = NoRepository
    /\ cpOpts = DefaultCopyOptions
    /\ extendCpOpts = DefaultExtendedCopyOptions
    /\ desc = ZeroDescriptor
    /\ err = nil
    /\ active = NoCall
    /\ nCb = 0
    /\ events = << >>
    /\ ret = nil

\* copy.go:72-75
NewSrcRepository ==
    /\ pc = "NewSrc"
    /\ \E cfgOk \in BOOLEAN :
         LET r == NewRepository("src", opts.srcRef, cfgOk) IN
         /\ events' = events \o << CallEvent("NewRepository", <<"src", opts.srcRef>>),
                                   ReturnEvent("NewRepository", ZeroDescriptor, r.err) >>
         /\ src' = r.repo
         /\ err' = r.err
         /\ IF r.err # nil
            THEN pc' = "done" /\ ret' = r.err
            ELSE pc' = "NewDst" /\ ret' = ret
    /\ UNCHANGED <<opts, dst, cpOpts, extendCpOpts, desc, active, nCb>>

\* faulty variant: the empty-reference check made before the destination is
\* constructed
NewDstRepository_CheckFirst ==
    /\ pc = "NewDst"
    /\ \E cfgOk \in BOOLEAN :
         LET r == NewRepository("dst", opts.dstRef, cfgOk) IN
         IF src.Reference.Reference = << >>
         THEN /\ ret' = newErrInvalidReference(src.Reference)
              /\ pc' = "done"
              /\ UNCHANGED <<dst, err, events>>
         ELSE /\ events' = events \o << CallEvent("NewRepository", <<"dst", opts.dstRef>>),
                                        ReturnEvent("NewRepository", ZeroDescriptor, r.err) >>
              /\ dst' = r.repo
              /\ err' = r.err
              /\ IF r.err # nil
                 THEN pc' = "done" /\ ret' = r.err
                 ELSE pc' = "PrepareCpOpts" /\ ret' = ret
    /\ UNCHANGED <<opts, src, cpOpts, extendCpOpts, desc, active, nCb>>

\* copy.go:78-81
NewDstRepository ==
    /\ pc = "NewDst"
    /\ \E cfgOk \in BOOLEAN :
         LET r == NewRepository("dst", opts.dstRef, cfgOk) IN
         /\ events' = events \o << CallEvent("NewRepository", <<"dst", opts.dstRef>>),
                                   ReturnEvent("NewRepository", ZeroDescriptor, r.err) >>
         /\ dst' = r.repo
         /\ err' = r.err
         /\ IF r.err # nil
            THEN pc' = "done" /\ ret' = r.err
            ELSE pc' = "PrepareCpOpts" /\ ret' = ret
    /\ UNCHANGED <<opts, src, cpOpts, extendCpOpts, desc, active, nCb>>

\* faulty variant: the callbacks attached to the standard bundle only
PrepareCpOpts_StandardOnly ==
    /\ pc = "PrepareCpOpts"
    /\ cpOpts' = [DefaultCopyOptions EXCEPT
                    !.CopyGraphOptions.PreCopy = "preCopy",
                    !.CopyGraphOptions.OnCopySkipped = "onCopySkipped"]
    /\ extendCpOpts' = DefaultExtendedCopyOptions
    /\ pc' = "CheckReference"
    /\ UNCHANGED <<opts, src, dst, desc, err, active, nCb, events, ret>>

\* copy.go:84-100
PrepareCpOpts ==
    /\ pc = "PrepareCpOpts"
    /\ cpOpts' = [DefaultCopyOptions EXCEPT
                    !.CopyGraphOptions.PreCopy = "preCopy",
                    !.CopyGraphOptions.OnCopySkipped = "onCopySkipped"]
    /\ extendCpOpts' = [DefaultExtendedCopyOptions EXCEPT
                    !.ExtendedCopyGraphOptions.CopyGraphOptions.PreCopy = "preCopy",
                    !.ExtendedCopyGraphOptions.CopyGraphOptions.OnCopySkipped = "onCopySkipped"]
    /\ pc' = "CheckReference"
    /\ UNCHANGED <<opts, src, dst, desc, err, active, nCb, events, ret>>

\* faulty variant: the empty source reference let through
CheckReference_Skipped ==
    /\ pc = "CheckReference"
    /\ ret' = ret
    /\ pc' = "Select"
    /\ UNCHANGED <<opts, src, dst, cpOpts, extendCpOpts, desc, err, active, nCb, events>>

\* copy.go:102-104
CheckReference ==
    /\ pc = "CheckReference"
    /\ IF src.Reference.Reference = << >>
       THEN /\ ret' = newErrInvalidReference(src.Reference)
            /\ pc' = "done"
       ELSE /\ ret' = ret
            /\ pc' = "Select"
    /\ UNCHANGED <<opts, src, dst, cpOpts, extendCpOpts, desc, err, active, nCb, events>>

\* faulty variant: Resolve's error not returned
Resolve_IgnoresError(next) ==
    \E d \in Descriptors \cup {ZeroDescriptor} :
       LET e == IF d = ZeroDescriptor THEN Err("NotFound", src.Reference.Reference) ELSE nil IN
       /\ events' = events \o << CallEvent("Resolve", <<src, src.Reference.Reference>>),
                                 ReturnEvent("Resolve", d, e) >>
       /\ desc' = d
       /\ err' = e
       /\ pc' = next
       /\ ret' = ret

\* src.Resolve(ctx, src.Reference.Reference), then "if err != nil { return err }"
Resolve(next) ==
    \E d \in Descriptors \cup {ZeroDescriptor} :
       LET e == IF d = ZeroDescriptor THEN Err("NotFound", src.Reference.Reference) ELSE nil IN
       /\ events' = events \o << CallEvent("Resolve", <<src, src.Reference.Reference>>),
                                 ReturnEvent("Resolve", d, e) >>
       /\ desc' = d
       /\ err' = e
       /\ IF e # nil
          THEN pc' = "done" /\ ret' = e
          ELSE pc' = next /\ ret' = ret

\* the collaborator starts a copy call
StartCopy(fn, args, graphOpts, returnsDesc) ==
    /\ events' = Append(events, CallEvent(fn, args))
    /\ active' = [fn |-> fn, PreCopy |-> graphOpts.PreCopy,
                  OnCopySkipped |-> graphOpts.OnCopySkipped, returnsDesc |-> returnsDesc]
    /\ nCb' = 0
    /\ pc' = "InCopy"

\* copy.go:110-114
ResolveForExtendedCopyGraph ==
    /\ pc = "Select"
    /\ opts.rescursive
    /\ dst.Reference.Reference = << >>
    /\ Resolve("ExtendedCopyGraph")
    /\ UNCHANGED <<opts, src, dst, cpOpts, extendCpOpts, active, nCb>>

\* copy.go:115
CallExtendedCopyGraph ==
    /\ pc = "ExtendedCopyGraph"
    /\ StartCopy("ExtendedCopyGraph", <<src, dst, desc, extendCpOpts.ExtendedCopyGraphOptions>>,
                 extendCpOpts.ExtendedCopyGraphOptions.CopyGraphOptions, FALSE)
    /\ UNCHANGED <<opts, src, dst, cpOpts, extendCpOpts, desc, err, ret>>

\* copy.go:116-118
CallExtendedCopy ==
    /\ pc = "Select"
    /\ opts.rescursive
    /\ dst.Reference.Reference # << >>
    /\ StartCopy("ExtendedCopy", <<src, opts.srcRef, dst, opts.dstRef, extendCpOpts>>,
                 extendCpOpts.ExtendedCopyGraphOptions.CopyGraphOptions, TRUE)
    /\ UNCHANGED <<opts, src, dst, cpOpts, extendCpOpts, desc, err, ret>>

\* copy.go:123-127
ResolveForCopyGraph ==
    /\ pc = "Select"
    /\ ~opts.rescursive
    /\ dst.Reference.Reference = << >>
    /\ Resolve("CopyGraph")
    /\ UNCHANGED <<opts, src, dst, cpOpts, extendCpOpts, active, nCb>>

\* copy.go:128
CallCopyGraph ==
    /\ pc = "CopyGraph"
    /\ StartCopy("CopyGraph", <<src, dst, desc, cpOpts.CopyGraphOptions>>,
                 cpOpts.CopyGraphOptions, FALSE)
    /\ UNCHANGED <<opts, src, dst, cpOpts, extendCpOpts, desc, err, ret>>

\* faulty variant: the tagged non-recursive branch calling the extended copy
CallCopy_Extended ==
    /\ pc = "Select"
    /\ ~opts.rescursive
    /\ dst.Reference.Reference # << >>
    /\ StartCopy("ExtendedCopy", <<src, opts.srcRef, dst, opts.dstRef, extendCpOpts>>,
                 extendCpOpts.ExtendedCopyGraphOptions.CopyGraphOptions, TRUE)
    /\ UNCHANGED <<opts, src, dst, cpOpts, extendCpOpts, desc, err, ret>>

\* copy.go:129-131
CallCopy ==
    /\ pc = "Select"
    /\ ~opts.rescursive
    /\ dst.Reference.Reference # << >>
    /\ StartCopy("Copy", <<src, opts.srcRef, dst, opts.dstRef, cpOpts>>,
                 cpOpts.CopyGraphOptions, TRUE)
    /\ UNCHANGED <<opts, src, dst, cpOpts, extendCpOpts, desc, err, ret>>

\* the collaborator invokes a callback slot on a node; a callback error aborts
\* the copy, which returns that error (and, from Copy and ExtendedCopy, the
\* zero descriptor)
CollabCallback(slotName, slot) ==
    /\ pc = "InCopy"
    /\ nCb < MaxNodes
    /\ \E d \in Descriptors, sinkOk \in BOOLEAN :
         LET r == Invoke(slot, opts.Verbose, sinkOk, d) IN
         IF r.err # nil
         THEN /\ events' = events \o << CallbackEvent(slotName, d, r),
                                        ReturnEvent(active.fn, ZeroDescriptor, r.err) >>
              /\ err' = r.err
              /\ desc' = IF active.returnsDesc THEN ZeroDescriptor ELSE desc
              /\ pc' = "AfterCopy"
              /\ nCb' = nCb
         ELSE /\ events' = Append(events, CallbackEvent(slotName, d, r))
              /\ nCb' = nCb + 1
              /\ UNCHANGED <<err, desc, pc>>
    /\ UNCHANGED <<opts, src, dst, cpOpts, extendCpOpts, active, ret>>

CollabPreCopy == CollabCallback("PreCopy", active.PreCopy)

CollabOnCopySkipped == CollabCallback("OnCopySkipped", active.OnCopySkipped)

\* the copy call returns: success (Copy and ExtendedCopy return the root
\* descriptor) or a transfer failure
CollabReturn ==
    /\ pc = "InCopy"
    /\ \E d \in Descriptors \cup {ZeroDescriptor} :
         LET e == IF d = ZeroDescriptor THEN Err("Transfer", <<active.fn>>) ELSE nil
             got == IF active.returnsDesc THEN d ELSE ZeroDescriptor IN
         /\ (~active.returnsDesc /\ d # ZeroDescriptor) => d = desc
         /\ events' = Append(events, ReturnEvent(active.fn, got, e))
         /\ err' = e
         /\ desc' = IF active.returnsDesc THEN d ELSE desc
    /\ pc' = "AfterCopy"
    /\ UNCHANGED <<opts, src, dst, cpOpts, extendCpOpts, active, nCb, ret>>

\* faulty variant: the completion lines printed before the error is looked at
Finish_AlwaysPrints ==
    /\ pc = "AfterCopy"
    /\ events' = events \o
         << PrintlnEvent(<<"Copied">> \o opts.srcRef \o <<"=>">> \o opts.dstRef),
            PrintlnEvent(<<"Digest:", desc.Digest>>) >>
    /\ ret' = err
    /\ pc' = "done"
    /\ UNCHANGED <<opts, src, dst, cpOpts, extendCpOpts, desc, err, active, nCb>>

\* copy.go:119-121, 132-143
Finish ==
    /\ pc = "AfterCopy"
    /\ IF err # nil
       THEN /\ ret' = err
            /\ events' = events
       ELSE /\ events' = events \o
                 << PrintlnEvent(<<"Copied">> \o opts.srcRef \o <<"=>">> \o opts.dstRef),
                    PrintlnEvent(<<"Digest:", desc.Digest>>) >>
            /\ ret' = nil
    /\ pc' = "done"
    /\ UNCHANGED <<opts, src, dst, cpOpts, extendCpOpts, desc, err, active, nCb>>

Next ==
    \/ NewSrcRepository
    \/ NewDstRepository
    \/ PrepareCpOpts
    \/ CheckReference
    \/ ResolveForExtendedCopyGraph
    \/ CallExtendedCopyGraph
    \/ CallExtendedCopy
    \/ ResolveForCopyGraph
    \/ CallCopyGraph
    \/ CallCopy
    \/ CollabPreCopy
    \/ CollabOnCopySkipped
    \/ CollabReturn
    \/ Finish

Spec == Init /\ [][Next]_vars

----------------------------------------------------------------------------
(* Reading the history *)

CopyFns == {"Copy", "CopyGraph", "ExtendedCopy", "ExtendedCopyGraph"}

GraphFns == {"CopyGraph", "ExtendedCopyGraph"}

TaggedFns == {"Copy", "ExtendedCopy"}

Idx == 1..Len(events)

CallIdx(fns) == {i \in Idx : events[i].ev = "call" /\ events[i].fn \in fns}

ReturnIdx(fns) == {i \in Idx : events[i].ev = "return" /\ events[i].fn \in fns}

FailedIdx == {i \in Idx : events[i].ev = "return" /\ events[i].err # nil}

PrintlnIdx == {i \in Idx : events[i].ev = "Println"}

CallbackIdx(slot) == {i \in Idx : events[i].ev = "callback" /\ events[i].slot = slot}

Constructed == src.constructed /\ dst.constructed

SrcReference == src.Reference.Reference

DstReference == dst.Reference.Reference

LastArg(i) == events[i].args[Len(events[i].args)]

\* the table of section 4.1
TableFn(recursive, tagged) ==
    CASE ~recursive /\ ~tagged -> "CopyGraph"
      [] ~recursive /\ tagged  -> "Copy"
      [] recursive /\ ~tagged  -> "ExtendedCopyGraph"
      [] recursive /\ tagged   -> "ExtendedCopy"

TableBundle(fn) ==
    CASE fn = "CopyGraph"         -> "CopyGraphOptions"
      [] fn = "Copy"              -> "CopyOptions"
      [] fn = "ExtendedCopyGraph" -> "ExtendedCopyGraphOptions"
      [] fn = "ExtendedCopy"      -> "ExtendedCopyOptions"

----------------------------------------------------------------------------
(* C1 *)

\* C1, as stated: a finished invocation whose repositories were constructed
\* and whose source reference string is non-empty has made exactly one copy
\* call, the one the table names for (recursive, destination tag present),
\* with the standard bundle on the non-recursive paths and the extended one on
\* the recursive paths.
C1_ExactlyOneCopyCall ==
    (pc = "done" /\ Constructed /\ SrcReference # << >>) =>
        /\ Cardinality(CallIdx(CopyFns)) = 1
        /\ \A i \in CallIdx(CopyFns) :
             /\ events[i].fn = TableFn(opts.rescursive, DstReference # << >>)
             /\ LastArg(i).type = TableBundle(events[i].fn)

\* C1, amended: never more than one copy call is made, every copy call made is
\* the one the table names for the two booleans and carries the bundle of its
\* path (the standard one when not recursive, the extended one when
\* recursive), and a finished invocation with constructed repositories and a
\* non-empty source reference string has made exactly one unless Resolve
\* failed on an untagged path, in which case it has made none.
C1_ModeSelection ==
    /\ Cardinality(CallIdx(CopyFns)) <= 1
    /\ \A i \in CallIdx(CopyFns) :
         /\ events[i].fn = TableFn(opts.rescursive, DstReference # << >>)
         /\ LastArg(i).type = TableBundle(events[i].fn)
         /\ LastArg(i) = CASE events[i].fn = "CopyGraph" -> cpOpts.CopyGraphOptions
                           [] events[i].fn = "Copy" -> cpOpts
                           [] events[i].fn = "ExtendedCopyGraph" ->
                                 extendCpOpts.ExtendedCopyGraphOptions
                           [] events[i].fn = "ExtendedCopy" -> extendCpOpts
    /\ (pc = "done" /\ Constructed /\ SrcReference # << >>) =>
         Cardinality(CallIdx(CopyFns)) =
            IF ReturnIdx({"Resolve"}) \cap FailedIdx = {} THEN 1 ELSE 0

C1_Witness ==
    /\ pc = "done"
    /\ ret = nil
    /\ opts.rescursive
    /\ \E i \in CallIdx({"ExtendedCopyGraph"}) : LastArg(i).type = "ExtendedCopyGraphOptions"

----------------------------------------------------------------------------
(* C2 *)

\* C2, as stated: a finished invocation whose source reference string is
\* empty has failed with InvalidReference, whatever recursive, verbose and the
\* destination reference are, with no Resolve or copy call and no completion
\* line.
C2_AlwaysInvalidReference ==
    (pc = "done" /\ src.constructed /\ SrcReference = << >>) =>
        /\ ret.kind = "InvalidReference"
        /\ CallIdx(CopyFns \cup {"Resolve"}) = {}
        /\ PrintlnIdx = {}

\* C2, amended: when the source reference string is empty, no Resolve or copy
\* call is ever made and no completion line is printed, and the invocation
\* fails: with InvalidReference when the destination repository was
\* constructed too, for every value of recursive and verbose and for a tagged
\* and an untagged destination; with the destination's construction error
\* otherwise.
C2_InvalidReference ==
    (src.constructed /\ SrcReference = << >>) =>
        /\ CallIdx(CopyFns \cup {"Resolve"}) = {}
        /\ PrintlnIdx = {}
        /\ pc \in {"NewDst", "PrepareCpOpts", "CheckReference", "done"}
        /\ pc = "done" =>
             /\ ret # nil
             /\ dst.constructed => ret = Err("InvalidReference", src.Reference.Repository)
             /\ ~dst.constructed => ret = Err("NewRepository", <<"dst">>)

C2_Witness ==
    /\ pc = "done"
    /\ Constructed
    /\ SrcReference = << >>
    /\ DstReference # << >>
    /\ opts.rescursive
    /\ ret.kind = "InvalidReference"

----------------------------------------------------------------------------
(* C3 *)

\* C3: on the tagged paths Copy and ExtendedCopy are handed the
\* reference-string components of the source and of the destination
\* reference, and runCopy makes no Resolve call.
C3_TagArguments ==
    \A i \in CallIdx(TaggedFns) :
        /\ events[i].args[2] = SrcReference
        /\ events[i].args[4] = DstReference
        /\ CallIdx({"Resolve"}) = {}

----------------------------------------------------------------------------
(* C4 *)

\* C4: a graph-copy call is made at most once, only on an untagged path, and
\* directly after a Resolve of the source's reference string on the source
\* repository that succeeded, with the descriptor Resolve returned; a finished
\* invocation on an untagged path has resolved first, and if Resolve failed it
\* has made no copy call and returns Resolve's error.
C4_ResolveThenGraphCopy ==
    /\ Cardinality(CallIdx(GraphFns)) <= 1
    /\ \A i \in CallIdx(GraphFns) :
         /\ DstReference = << >>
         /\ events[i].fn = IF opts.rescursive THEN "ExtendedCopyGraph" ELSE "CopyGraph"
         /\ i >= 3
         /\ events[i-2] = CallEvent("Resolve", <<src, SrcReference>>)
         /\ events[i-1].ev = "return"
         /\ events[i-1].fn = "Resolve"
         /\ events[i-1].err = nil
         /\ events[i].args[1] = src
         /\ events[i].args[2] = dst
         /\ events[i].args[3] = events[i-1].desc
         /\ CallIdx({"Resolve"}) = {i-2}
    /\ (pc = "done" /\ Constructed /\ SrcReference # << >> /\ DstReference = << >>) =>
         /\ Cardinality(CallIdx({"Resolve"})) = 1
         /\ \A r \in ReturnIdx({"Resolve"}) :
              IF events[r].err # nil
              THEN /\ CallIdx(CopyFns) = {}
                   /\ ret = events[r].err
                   /\ r = Len(events)
              ELSE Cardinality(CallIdx(GraphFns)) = 1

C4_Witness ==
    /\ pc = "done"
    /\ ret = nil
    /\ ~opts.rescursive
    /\ \E i \in CallIdx({"CopyGraph"}) :
         /\ events[i].args[3] \in Descriptors
         /\ events[i-1].desc = events[i].args[3]

----------------------------------------------------------------------------
(* C5 *)

\* the subject descriptor: what Resolve returned on an untagged path, what the
\* copy call returned on a tagged path
Subject ==
    IF ReturnIdx({"Resolve"}) # {}
    THEN events[CHOOSE r \in ReturnIdx({"Resolve"}) : TRUE].desc
    ELSE events[CHOOSE r \in ReturnIdx(TaggedFns) : TRUE].desc

\* C5: completion lines exist only in a finished invocation that succeeded; a
\* failed invocation returns the error of the one failing step (or
\* InvalidReference), which is the last thing that happened, and prints
\* nothing; a successful one ends with the successful return of the copy call
\* followed by exactly the two lines "Copied <srcRef> => <dstRef>" and
\* "Digest: <subject digest>".
C5_CompletionLines ==
    /\ PrintlnIdx # {} => (pc = "done" /\ ret = nil)
    /\ Cardinality(FailedIdx) <= 1
    /\ (pc = "done" /\ ret # nil) =>
         /\ PrintlnIdx = {}
         /\ IF ret.kind = "InvalidReference"
            THEN FailedIdx = {}
            ELSE FailedIdx = {Len(events)} /\ ret = events[Len(events)].err
    /\ (pc = "done" /\ ret = nil) =>
         LET n == Len(events) IN
         /\ FailedIdx = {}
         /\ PrintlnIdx = {n-1, n}
         /\ events[n-2].ev = "return"
         /\ events[n-2].fn \in CopyFns
         /\ events[n-2].err = nil
         /\ events[n-1].line = <<"Copied">> \o opts.srcRef \o <<"=>">> \o opts.dstRef
         /\ events[n].line = <<"Digest:", Subject.Digest>>
         /\ Subject \in Descriptors

C5_Witness ==
    /\ pc = "done"
    /\ ret = nil
    /\ opts.srcRef = <<"repo-a", ":", "v1">>
    /\ opts.dstRef = <<"repo-b", ":", "v1">>
    /\ events[Len(events)-1].line = <<"Copied", "repo-a", ":", "v1", "=>", "repo-b", ":", "v1">>
    /\ events[Len(events)].line = <<"Digest:", "sha256:d1">>

----------------------------------------------------------------------------
(* C6 *)

HasTitle(d) == AnnotationTitle \in DOMAIN d.Annotations

\* C6: every PreCopy invocation of a descriptor with a title annotation
\* reports one "Uploading" line labeled with the title, verbose or not; of a
\* descriptor without one it reports nothing when verbose is off and one
\* "Uploading" line labeled with the media type when verbose is on.
C6_PreCopyOutput ==
    \A i \in CallbackIdx("PreCopy") :
        LET d == events[i].desc
            p == events[i].prints IN
        /\ HasTitle(d) =>
             /\ Len(p) = 1
             /\ p[1].status = "Uploading"
             /\ p[1].label = d.Annotations[AnnotationTitle]
        /\ (~HasTitle(d) /\ ~opts.Verbose) => p = << >>
        /\ (~HasTitle(d) /\ opts.Verbose) =>
             /\ Len(p) = 1
             /\ p[1].status = "Uploading"
             /\ p[1].label = d.MediaType

C6_Witness ==
    /\ \E i \in CallbackIdx("PreCopy") :
         ~HasTitle(events[i].desc) /\ opts.Verbose /\ Len(events[i].prints) = 1
    /\ \E i \in CallbackIdx("PreCopy") :
         HasTitle(events[i].desc) /\ Len(events[i].prints) = 1

----------------------------------------------------------------------------
(* C7 *)

\* C7: every OnCopySkipped invocation reports exactly one "Exists" line,
\* verbose or not, titled or not, labeled with the title annotation's value,
\* and with the empty string when the descriptor has none.
C7_OnCopySkippedOutput ==
    \A i \in CallbackIdx("OnCopySkipped") :
        LET d == events[i].desc
            p == events[i].prints IN
        /\ Len(p) = 1
        /\ p[1].status = "Exists   "
        /\ p[1].label = IF HasTitle(d) THEN d.Annotations[AnnotationTitle] ELSE ""

C7_Witness ==
    /\ ~opts.Verbose
    /\ \E i \in CallbackIdx("OnCopySkipped") :
         /\ ~HasTitle(events[i].desc)
         /\ Len(events[i].prints) = 1
         /\ events[i].prints[1].label = ""

----------------------------------------------------------------------------
(* C8 *)

\* the graph-only options inside the bundle a copy call received
GraphOptionsOf(fn, o) ==
    CASE fn = "CopyGraph"         -> o
      [] fn = "Copy"              -> o.CopyGraphOptions
      [] fn = "ExtendedCopyGraph" -> o.CopyGraphOptions
      [] fn = "ExtendedCopy"      -> o.ExtendedCopyGraphOptions.CopyGraphOptions

\* C8: once the path is being selected both bundles hold the same two
\* closures, preCopy and onCopySkipped, and whichever copy call is made
\* receives exactly these in its PreCopy and OnCopySkipped slots, which are
\* the ones the collaborator invokes.
C8_SameCallbacks ==
    /\ pc \notin {"NewSrc", "NewDst", "PrepareCpOpts"} /\ Constructed =>
         /\ cpOpts.CopyGraphOptions.PreCopy = "preCopy"
         /\ cpOpts.CopyGraphOptions.OnCopySkipped = "onCopySkipped"
         /\ extendCpOpts.ExtendedCopyGraphOptions.CopyGraphOptions.PreCopy
              = cpOpts.CopyGraphOptions.PreCopy
         /\ extendCpOpts.ExtendedCopyGraphOptions.CopyGraphOptions.OnCopySkipped
              = cpOpts.CopyGraphOptions.OnCopySkipped
    /\ \A i \in CallIdx(CopyFns) :
         LET g == GraphOptionsOf(events[i].fn, LastArg(i)) IN
         /\ g.PreCopy = "preCopy"
         /\ g.OnCopySkipped = "onCopySkipped"
         /\ active.fn = events[i].fn
         /\ active.PreCopy = g.PreCopy
         /\ active.OnCopySkipped = g.OnCopySkipped

C8_Witness ==
    /\ CallIdx({"ExtendedCopy"}) # {}
    /\ CallbackIdx("PreCopy") # {}
    /\ CallbackIdx("OnCopySkipped") # {}

----------------------------------------------------------------------------
(* C9 *)

\* C9: a callback that reports nothing returns success, one that reports
\* returns exactly what the sink's Print returned; a callback that failed is
\* followed at once by the copy call's return with that error, and the
\* invocation then ends with an error and without a completion line.
C9_CallbackResult ==
    /\ \A i \in CallbackIdx("PreCopy") \cup CallbackIdx("OnCopySkipped") :
         /\ events[i].prints = << >> => events[i].err = nil
         /\ events[i].prints # << >> =>
              /\ Len(events[i].prints) = 1
              /\ events[i].err = events[i].prints[1].result
         /\ events[i].err # nil =>
              /\ Len(events) = i + 1
              /\ events[i+1].ev = "return"
              /\ events[i+1].fn \in CopyFns
              /\ events[i+1].err = events[i].err
              /\ PrintlnIdx = {}
              /\ pc \in {"AfterCopy", "done"}
              /\ err = events[i].err
              /\ pc = "done" => ret = events[i].err

C9_Witness ==
    /\ pc = "done"
    /\ ret.kind = "Sink"
    /\ \E i \in CallbackIdx("PreCopy") : events[i].err.kind = "Sink"
    /\ \E i \in CallbackIdx("OnCopySkipped") : events[i].err = nil

----------------------------------------------------------------------------
(* C10 *)

\* C10: InvalidReference is returned only after both repositories were
\* constructed and before any Resolve or copy call; a failed construction of
\* the source is returned without constructing the destination, a failed
\* construction of the destination is returned also when the source reference
\* string is empty.
C10_CheckAfterConstruction ==
    /\ (pc = "done" /\ ret.kind = "InvalidReference") =>
         /\ Constructed
         /\ Len(events) = 4
         /\ events[1] = CallEvent("NewRepository", <<"src", opts.srcRef>>)
         /\ events[2] = ReturnEvent("NewRepository", ZeroDescriptor, nil)
         /\ events[3] = CallEvent("NewRepository", <<"dst", opts.dstRef>>)
         /\ events[4] = ReturnEvent("NewRepository", ZeroDescriptor, nil)
    /\ \A i \in ReturnIdx({"NewRepository"}) \cap FailedIdx :
         /\ i = Len(events)
         /\ i \in {2, 4}
         /\ events[i-1].args[1] = IF i = 2 THEN "src" ELSE "dst"
         /\ pc = "done"
         /\ ret = events[i].err
    /\ CallIdx(CopyFns \cup {"Resolve"}) # {} =>
         /\ Constructed
         /\ SrcReference # << >>
         /\ Cardinality(CallIdx({"NewRepository"})) = 2
         /\ \A i \in CallIdx(CopyFns \cup {"Resolve"}) : i > 4

C10_Witness ==
    /\ pc = "done"
    /\ src.constructed
    /\ SrcReference = << >>
    /\ ~dst.constructed
    /\ ret = Err("NewRepository", <<"dst">>)

====
